---------------------------- MODULE Spec2Model ----------------------------
(***************************************************************************)
(* Model of src/src/demo_sampler_bilby/plugin.py: the DemoSampler adapter. *)
(*                                                                         *)
(* Floating point values are records [kind, v]: kind "fin" carries an      *)
(* integer v in thousandths (v = -1500 is -1.5); "nan", "ninf" and "pinf"  *)
(* are IEEE NaN, -inf and +inf; "uninit" is a cell of np.empty that has    *)
(* not been written.  The host framework (priors, evaluators, the random   *)
(* source) is the environment: its answers are drawn from small sets.      *)
(***************************************************************************)
EXTENDS Integers, Sequences, FiniteSets

VARIABLES
    pc,             \* position: "new", "ready", "loop", "selected", "done", "raised"
    ctor_kwargs,    \* the keyword arguments the user passed to the constructor
    kwargs,         \* self.kwargs
    prior_samples,  \* local prior_samples: sequence of rows
    logl,           \* local logl
    logp,           \* local logp
    i,              \* loop index of the evaluation loop (1-based)
    u,              \* the vector np.random.rand returned (numerators of u = k/4)
    keep,           \* local keep: boolean mask
    result,         \* self.result: the six fields run_sampler assigns
    thrown,         \* the fault a collaborator raised inside run_sampler, if any
    error,          \* the fault that reached run_sampler's caller, if any
    calls,          \* how often each collaborator has been called
    outputs,        \* what the last get_expected_outputs call returned
    created         \* the paths the adapter has created on disk

vars == <<pc, ctor_kwargs, kwargs, prior_samples, logl, logp, i, u, keep,
          result, thrown, error, calls, outputs, created>>

runvars == <<pc, ctor_kwargs, kwargs, prior_samples, logl, logp, i, u, keep,
             result, thrown, error, calls, created>>

-----------------------------------------------------------------------------
(* Bounds and the environment's value sets *)

MaxN == 2

Fin(x) == [kind |-> "fin", v |-> x]
NaN == [kind |-> "nan", v |-> 0]
NegInf == [kind |-> "ninf", v |-> 0]
PosInf == [kind |-> "pinf", v |-> 0]
Uninit == [kind |-> "uninit", v |-> 0]

IsFin(a) == a.kind = "fin"

\* what one prior draw of one parameter can be
SampleVals == {0, 1}
\* what log_likelihood can return
LVals == {Fin(-1000), Fin(-500), Fin(0), NegInf, NaN}
\* what log_prior can return
PVals == {Fin(-700), NegInf}
\* what np.random.rand can return: u = k/4, in [0, 1)
UVals == {0, 2, 3}
\* the faults a collaborator can raise
ExcVals == {"RuntimeError"}
\* the search parameters, in the order of the prior dictionary
ParamKeys == <<"x">>
\* keyword arguments a user can supply: one recognised, one not
UserKeys == {"ninitial", "walks"}
\* arguments of get_expected_outputs
PathVals == {"None", "run1"}
LabelVals == {"None", "test"}

None == <<>>
Some(x) == <<x>>

-----------------------------------------------------------------------------
(* Class attributes and properties *)

sampler_name == "demo_sampler"

abbreviation == None

external_sampler_name == "bilby"

\* default_kwargs declaring a second option
default_kwargs_walks == [ninitial |-> 100, walks |-> 5]

default_kwargs == [ninitial |-> 100]

-----------------------------------------------------------------------------
(* Floating point, as numpy computes it *)

\* a - b
FSub(a, b) ==
    IF a.kind = "nan" \/ b.kind = "nan" THEN NaN
    ELSE IF IsFin(a) /\ IsFin(b) THEN Fin(a.v - b.v)
    ELSE IF IsFin(a) THEN (IF b.kind = "pinf" THEN NegInf ELSE PosInf)
    ELSE IF a.kind = b.kind THEN NaN
    ELSE a

\* a > b: every comparison with NaN is False
FGt(a, b) ==
    IF a.kind = "nan" \/ b.kind = "nan" THEN FALSE
    ELSE IF IsFin(a) /\ IsFin(b) THEN a.v > b.v
    ELSE IF a.kind = "pinf" THEN b.kind # "pinf"
    ELSE IF a.kind = "ninf" THEN FALSE
    ELSE b.kind = "ninf"

\* the larger of two values as np.maximum gives it: NaN propagates
FMax2(a, b) ==
    IF a.kind = "nan" \/ b.kind = "nan" THEN NaN
    ELSE IF FGt(b, a) THEN b ELSE a

RECURSIVE MaxFrom(_, _)
MaxFrom(a, k) ==
    IF k = 1 THEN a[1] ELSE FMax2(MaxFrom(a, k - 1), a[k])

\* a.max() of a non-empty array
ArrayMax(a) == MaxFrom(a, Len(a))

RECURSIVE SumV(_, _)
SumV(a, k) == IF k = 0 THEN 0 ELSE SumV(a, k - 1) + a[k].v

RECURSIVE SumSqV(_, _)
SumSqV(a, k) == IF k = 0 THEN 0 ELSE SumSqV(a, k - 1) + a[k].v * a[k].v

HasKind(a, kd) == \E j \in 1..Len(a) : a[j].kind = kd

AllFin(a) == \A j \in 1..Len(a) : IsFin(a[j])

\* np.mean(a) of a non-empty array: the sum over the count, to the thousandth
Mean(a) ==
    IF HasKind(a, "nan") \/ (HasKind(a, "pinf") /\ HasKind(a, "ninf")) THEN NaN
    ELSE IF HasKind(a, "pinf") THEN PosInf
    ELSE IF HasKind(a, "ninf") THEN NegInf
    ELSE Fin(SumV(a, Len(a)) \div Len(a))

\* the integer square root, by bisection: lo * lo <= k < hi * hi
RECURSIVE Bisect(_, _, _)
Bisect(k, lo, hi) ==
    IF hi - lo <= 1 THEN lo
    ELSE LET mid == (lo + hi) \div 2
         IN  IF mid * mid <= k THEN Bisect(k, mid, hi) ELSE Bisect(k, lo, mid)

\* the first power of two whose square exceeds k
RECURSIVE Above(_, _)
Above(k, h) == IF h * h > k THEN h ELSE Above(k, 2 * h)

ISqrt(k) == Bisect(k, 0, Above(k, 1))

\* np.std(a) of a non-empty array: sqrt(mean(|a - mean(a)|^2)), to the
\* thousandth; a - mean(a) holds a NaN as soon as one entry is not finite
Std(a) ==
    IF ~AllFin(a) THEN NaN
    ELSE LET n == Len(a)
             s == SumV(a, n)
             q == SumSqV(a, n)
         IN  Fin(ISqrt((n * q - s * s) \div (n * n)))

\* np.log(k/4) to the thousandth, rounded down; np.log(0) is -inf
Log(k) ==
    CASE k = 0 -> NegInf
      [] k = 1 -> Fin(-1387)
      [] k = 2 -> Fin(-694)
      [] k = 3 -> Fin(-288)

-----------------------------------------------------------------------------
(* Array helpers *)

\* np.array(list(d.values())).T : columns (one per parameter) to n rows;
\* without a column the array is empty and has no row
Transpose(cols, n) ==
    IF Len(cols) = 0 THEN <<>>
    ELSE [r \in 1..n |-> [c \in 1..Len(cols) |-> cols[c][r]]]

\* np.empty(n)
Empty(n) == [j \in 1..n |-> Uninit]

\* a[mask]: the entries of a where mask is True, in order
RECURSIVE MaskFrom(_, _, _)
MaskFrom(a, mask, k) ==
    IF k = 0 THEN <<>>
    ELSE IF mask[k] THEN Append(MaskFrom(a, mask, k - 1), a[k])
    ELSE MaskFrom(a, mask, k - 1)

Mask(a, mask) == MaskFrom(a, mask, Len(a))

\* LogW without the normalisation by the maximum
LogWRaw(ll) == ll

\* logw = logl.copy() - logl.max()
LogW(ll) == [j \in 1..Len(ll) |-> FSub(ll[j], ArrayMax(ll))]

\* Keep with one draw shared by every sample
KeepSharedDraw(ll, uu) == [j \in 1..Len(ll) |-> FGt(FSub(ll[j], ArrayMax(ll)), Log(uu[1]))]

\* keep = logw > np.log(np.random.rand(len(logw)))
Keep(ll, uu) == [j \in 1..Len(ll) |-> FGt(LogW(ll)[j], Log(uu[j]))]

\* PopulateResult storing the log-prior of every drawn sample
PopulateAllLogPrior(ps, ll, lp, kp) ==
    [samples |-> Some(Mask(ps, kp)),
     log_likelihood_evaluations |-> Some(Mask(ll, kp)),
     log_prior_evaluations |-> Some(lp),
     nested_samples |-> Some(ps),
     log_evidence |-> Some(Mean(ll)),
     log_evidence_err |-> Some(Std(ll))]

\* PopulateResult storing the log-likelihood of every drawn sample
PopulateAllLogLikelihood(ps, ll, lp, kp) ==
    [samples |-> Some(Mask(ps, kp)),
     log_likelihood_evaluations |-> Some(ll),
     log_prior_evaluations |-> Some(Mask(lp, kp)),
     nested_samples |-> Some(ps),
     log_evidence |-> Some(Mean(ll)),
     log_evidence_err |-> Some(Std(ll))]

\* PopulateResult storing the retained samples as nested samples
PopulateNestedKept(ps, ll, lp, kp) ==
    [samples |-> Some(Mask(ps, kp)),
     log_likelihood_evaluations |-> Some(Mask(ll, kp)),
     log_prior_evaluations |-> Some(Mask(lp, kp)),
     nested_samples |-> Some(Mask(ps, kp)),
     log_evidence |-> Some(Mean(ll)),
     log_evidence_err |-> Some(Std(ll))]

\* PopulateResult taking the evidence over the retained samples only
PopulateEvidenceKept(ps, ll, lp, kp) ==
    [samples |-> Some(Mask(ps, kp)),
     log_likelihood_evaluations |-> Some(Mask(ll, kp)),
     log_prior_evaluations |-> Some(Mask(lp, kp)),
     nested_samples |-> Some(ps),
     log_evidence |-> Some(IF Len(Mask(ll, kp)) = 0 THEN NaN ELSE Mean(Mask(ll, kp))),
     log_evidence_err |-> Some(IF Len(Mask(ll, kp)) = 0 THEN NaN ELSE Std(Mask(ll, kp)))]

\* run_sampler, lines 74-84: the six fields assigned to self.result
PopulateResult(ps, ll, lp, kp) ==
    [samples |-> Some(Mask(ps, kp)),
     log_likelihood_evaluations |-> Some(Mask(ll, kp)),
     log_prior_evaluations |-> Some(Mask(lp, kp)),
     nested_samples |-> Some(ps),
     log_evidence |-> Some(Mean(ll)),
     log_evidence_err |-> Some(Std(ll))]

-----------------------------------------------------------------------------
(* Keyword arguments *)

\* Sampler.__init__: the defaults updated by the user's arguments, then every
\* key default_kwargs does not declare removed
MergeKwargs(defaults, user) ==
    [k \in DOMAIN defaults |-> IF k \in DOMAIN user THEN user[k] ELSE defaults[k]]

\* the base class's default: no file, the directory <outdir>/<name>_<label>
get_expected_outputs_default(outdir, label) ==
    <<<<>>, <<<<outdir, IF abbreviation = None THEN sampler_name ELSE abbreviation[1], label>>>>>>

\* get_expected_outputs: (filenames, dirs)
get_expected_outputs(outdir, label) == <<<<>>, <<>>>>

-----------------------------------------------------------------------------
(* State *)

\* the configurations a user can pass
KeyVals(k) == IF k = "ninitial" THEN 0..MaxN ELSE {5}

UserConfigs ==
    UNION {{c \in [K -> 0..MaxN \cup {5}] : \A k \in K : c[k] \in KeyVals(k)} :
           K \in SUBSET UserKeys}

\* the result object as the host framework creates it: nothing assigned
FreshResult ==
    [samples |-> None, log_likelihood_evaluations |-> None,
     log_prior_evaluations |-> None, nested_samples |-> None,
     log_evidence |-> None, log_evidence_err |-> None]

NoCalls == [sample |-> 0, log_likelihood |-> 0, log_prior |-> 0, rand |-> 0]

Init ==
    /\ pc = "new"
    /\ ctor_kwargs \in UserConfigs
    /\ kwargs = <<>>
    /\ prior_samples = <<>>
    /\ logl = <<>>
    /\ logp = <<>>
    /\ i = 0
    /\ u = <<>>
    /\ keep = <<>>
    /\ result = FreshResult
    /\ thrown = None
    /\ error = None
    /\ calls = NoCalls
    /\ outputs = None
    /\ created = {}

\* Raise with the fault caught inside run_sampler, which carries on
RaiseCaught(by, exc, at) ==
    /\ thrown' = Some([by |-> by, exc |-> exc, at |-> at])
    /\ error' = None
    /\ pc' = pc

\* a collaborator raised exc at sample `at`: nothing catches it
Raise(by, exc, at) ==
    /\ thrown' = Some([by |-> by, exc |-> exc, at |-> at])
    /\ error' = Some(exc)
    /\ pc' = "raised"

\* Sampler.__init__: the keyword arguments are merged with default_kwargs
Construct ==
    /\ pc = "new"
    /\ kwargs' = MergeKwargs(default_kwargs, ctor_kwargs)
    /\ pc' = "ready"
    /\ UNCHANGED <<ctor_kwargs, prior_samples, logl, logp, i, u, keep, result, thrown,
                   error, calls, outputs, created>>

\* DrawPrior storing the nested samples as soon as they are drawn
DrawPriorEager ==
    /\ pc = "ready"
    /\ kwargs["ninitial"] <= MaxN
    /\ calls' = [calls EXCEPT !.sample = @ + 1]
    /\ \/ \E exc \in ExcVals :
            /\ Raise("sample", exc, 0)
            /\ UNCHANGED <<prior_samples, logl, logp, i, result>>
       \/ \E cols \in [1..Len(ParamKeys) -> [1..kwargs["ninitial"] -> SampleVals]] :
            /\ prior_samples' = Transpose(cols, kwargs["ninitial"])
            /\ result' = [result EXCEPT !.nested_samples = Some(prior_samples')]
            /\ logl' = Empty(Len(prior_samples'))
            /\ logp' = Empty(Len(prior_samples'))
            /\ i' = 1
            /\ pc' = "loop"
            /\ UNCHANGED <<thrown, error>>
    /\ UNCHANGED <<ctor_kwargs, kwargs, u, keep, outputs, created>>

\* run_sampler, lines 55-60: draw ninitial samples from the prior
DrawPrior ==
    /\ pc = "ready"
    /\ kwargs["ninitial"] <= MaxN
    /\ calls' = [calls EXCEPT !.sample = @ + 1]
    /\ \/ \E exc \in ExcVals :
            /\ Raise("sample", exc, 0)
            /\ UNCHANGED <<prior_samples, logl, logp, i>>
       \/ \E cols \in [1..Len(ParamKeys) -> [1..kwargs["ninitial"] -> SampleVals]] :
            /\ prior_samples' = Transpose(cols, kwargs["ninitial"])
            /\ logl' = Empty(Len(prior_samples'))
            /\ logp' = Empty(Len(prior_samples'))
            /\ i' = 1
            /\ pc' = "loop"
            /\ UNCHANGED <<thrown, error>>
    /\ UNCHANGED <<ctor_kwargs, kwargs, u, keep, result, outputs, created>>

\* run_sampler, lines 61-63: one iteration of the evaluation loop
EvalSample ==
    /\ pc = "loop"
    /\ i <= Len(prior_samples)
    /\ \/ \E exc \in ExcVals :
            /\ Raise("log_likelihood", exc, i)
            /\ calls' = [calls EXCEPT !.log_likelihood = @ + 1]
            /\ UNCHANGED <<logl, logp, i>>
       \/ \E l \in LVals, exc \in ExcVals :
            /\ logl' = [logl EXCEPT ![i] = l]
            /\ Raise("log_prior", exc, i)
            /\ calls' = [calls EXCEPT !.log_likelihood = @ + 1, !.log_prior = @ + 1]
            /\ UNCHANGED <<logp, i>>
       \/ \E l \in LVals, p \in PVals :
            /\ logl' = [logl EXCEPT ![i] = l]
            /\ logp' = [logp EXCEPT ![i] = p]
            /\ calls' = [calls EXCEPT !.log_likelihood = @ + 1, !.log_prior = @ + 1]
            /\ i' = i + 1
            /\ UNCHANGED <<pc, thrown, error>>
    /\ UNCHANGED <<ctor_kwargs, kwargs, prior_samples, u, keep, result,
                   outputs, created>>

\* run_sampler, lines 66-68: the weights and the acceptance mask
Select ==
    /\ pc = "loop"
    /\ i > Len(prior_samples)
    /\ \/ /\ Len(logl) = 0
          /\ Raise("max", "ValueError", 0)
          /\ UNCHANGED <<u, keep, calls>>
       \/ /\ Len(logl) > 0
          /\ \E uu \in [1..Len(logl) -> UVals] :
                /\ u' = uu
                /\ keep' = Keep(logl, uu)
          /\ calls' = [calls EXCEPT !.rand = @ + 1]
          /\ pc' = "selected"
          /\ UNCHANGED <<thrown, error>>
    /\ UNCHANGED <<ctor_kwargs, kwargs, prior_samples, logl, logp, i, result,
                   outputs, created>>

\* run_sampler, lines 74-87: populate the result object and return it
Populate ==
    /\ pc = "selected"
    /\ result' = PopulateResult(prior_samples, logl, logp, keep)
    /\ pc' = "done"
    /\ UNCHANGED <<ctor_kwargs, kwargs, prior_samples, logl, logp, i, u, keep,
                   thrown, error, calls, outputs, created>>

\* the class method get_expected_outputs, called at any time
GetExpectedOutputs ==
    /\ \E outdir \in PathVals, label \in LabelVals :
          outputs' = Some(get_expected_outputs(outdir, label))
    /\ UNCHANGED runvars

Next ==
    \/ Construct
    \/ DrawPrior
    \/ EvalSample
    \/ Select
    \/ Populate
    \/ GetExpectedOutputs

Spec == Init /\ [][Next]_vars

\* a step of run_sampler
RunStep == DrawPrior \/ EvalSample \/ Select \/ Populate

-----------------------------------------------------------------------------
(* Vocabulary of the properties *)

\* the number of samples drawn
N == Len(prior_samples)

\* the indices the mask keeps
KeptIdx == {j \in 1..Len(keep) : keep[j]}

\* the k-th kept index, in draw order
NthKept(k) == CHOOSE j \in KeptIdx : Cardinality({m \in KeptIdx : m <= j}) = k

\* the mask has been computed
Selected == pc \in {"selected", "done"}

\* the maximum of an array, by its defining property (NaN if it holds one)
MaxOf(a) ==
    IF HasKind(a, "nan") THEN NaN
    ELSE CHOOSE m \in {a[j] : j \in 1..Len(a)} : \A j \in 1..Len(a) : ~FGt(a[j], m)

\* the indices passing the acceptance test logl[j] - max(logl) > log(u[j])
Passing == {j \in 1..N : FGt(FSub(logl[j], MaxOf(logl)), Log(u[j]))}

\* the same test in integer thousandths, for finite log-likelihoods:
\* log(0) = -inf is below every finite weight
PassingFinite ==
    LET top == CHOOSE m \in {logl[j].v : j \in 1..N} : \A j \in 1..N : logl[j].v <= m
    IN  {j \in 1..N : u[j] = 0 \/ logl[j].v - top > Log(u[j]).v}

-----------------------------------------------------------------------------
(* C1: once the acceptance mask is computed, the retained indices are exactly
   the indices j with logl[j] - max(logl) > log(u[j]), each decided by its
   own draw u[j]; the posterior has one row per such index. *)
C1_RetainedSetExact ==
    Selected =>
        /\ Len(u) = N
        /\ KeptIdx = Passing
        /\ (AllFin(logl) => KeptIdx = PassingFinite)
        /\ (pc = "done" => Len(result.samples[1]) = Cardinality(Passing))

\* the second sample, of smaller log-likelihood, passes on its own draw
\* (2/4) where the first sample's draw 3/4 would have rejected it
C1_Witness ==
    /\ pc = "done"
    /\ logl = <<Fin(0), Fin(-500)>>
    /\ u = <<3, 2>>
    /\ KeptIdx = {1, 2}
    /\ Len(result.samples[1]) = 2

(* C2: after a successful run the posterior samples and the two evaluation
   arrays have one row per retained index, and row k of each belongs to the
   k-th retained drawn sample. *)
C2_RowsAligned ==
    pc = "done" =>
        /\ Len(result.samples[1]) = Cardinality(KeptIdx)
        /\ Len(result.log_likelihood_evaluations[1]) = Cardinality(KeptIdx)
        /\ Len(result.log_prior_evaluations[1]) = Cardinality(KeptIdx)
        /\ \A k \in 1..Cardinality(KeptIdx) :
              /\ result.samples[1][k] = prior_samples[NthKept(k)]
              /\ result.log_likelihood_evaluations[1][k] = logl[NthKept(k)]
              /\ result.log_prior_evaluations[1][k] = logp[NthKept(k)]

\* only the second of two different samples is retained
C2_Witness ==
    /\ pc = "done"
    /\ KeptIdx = {2}
    /\ prior_samples[1] # prior_samples[2]
    /\ logl[1] # logl[2]
    /\ logp[1] # logp[2]

(* C3: the drawn matrix has ninitial rows and nested_samples is that matrix,
   every row in draw order, whatever the mask retained. *)
C3_NestedIsFullDraw ==
    /\ pc \in {"loop", "selected", "done"} => N = kwargs["ninitial"]
    /\ pc = "done" =>
          /\ result.nested_samples = Some(prior_samples)
          /\ Len(result.nested_samples[1]) = kwargs["ninitial"]

\* a run that drops a drawn sample from the posterior
C3_Witness ==
    /\ pc = "done"
    /\ N = 2
    /\ KeptIdx = {1}
    /\ prior_samples[1] # prior_samples[2]

(* C4: log_evidence is the mean and log_evidence_err the standard deviation
   of the log-likelihoods of all drawn samples (to the thousandth, rounded
   down), whatever the mask retained; with a log-likelihood that is not
   finite the evidence is not finite and its error is NaN. *)
C4_EvidenceOverAll ==
    pc = "done" =>
        LET e == result.log_evidence[1]
            s == result.log_evidence_err[1]
            sum == SumV(logl, N)
            dev == N * SumSqV(logl, N) - sum * sum
        IN  IF AllFin(logl)
            THEN /\ IsFin(e) /\ N * e.v <= sum /\ sum < N * (e.v + 1)
                 /\ IsFin(s) /\ s.v >= 0
                 /\ s.v * s.v * N * N <= dev /\ dev < (s.v + 1) * (s.v + 1) * N * N
            ELSE ~IsFin(e) /\ s = NaN

\* draws with log-likelihoods 0 and -1 of which only the first is retained:
\* the evidence is -0.5 and its error 0.5
C4_Witness ==
    /\ pc = "done"
    /\ logl = <<Fin(0), Fin(-1000)>>
    /\ KeptIdx = {1}
    /\ result.log_evidence = Some(Fin(-500))
    /\ result.log_evidence_err = Some(Fin(500))

(* C5: a fault raised by prior sampling or by an evaluator ends run_sampler
   with that same fault at the caller: the failed call is made once, no
   evaluator is called for a later sample, no step of run_sampler follows
   and no result is returned. *)
C5_FaultPropagates ==
    /\ calls.sample <= 1
    /\ thrown # None =>
          /\ pc = "raised"
          /\ error = Some(thrown[1].exc)
          /\ ~ENABLED RunStep
          /\ thrown[1].by = "sample" =>
                calls = [NoCalls EXCEPT !.sample = 1]
          /\ thrown[1].by = "log_likelihood" =>
                /\ calls.log_likelihood = thrown[1].at
                /\ calls.log_prior = thrown[1].at - 1
          /\ thrown[1].by = "log_prior" =>
                /\ calls.log_likelihood = thrown[1].at
                /\ calls.log_prior = thrown[1].at
          /\ calls.rand = 0
    /\ error # None => thrown # None /\ pc = "raised"

\* the log-likelihood of the first of two drawn samples raises
C5_Witness ==
    /\ pc = "raised"
    /\ N = 2
    /\ thrown # None
    /\ thrown[1].by = "log_likelihood"
    /\ thrown[1].at = 1
    /\ error = Some("RuntimeError")

(* C6: a run that retains no sample ends like any other: no fault, the
   result returned with an empty posterior matrix and empty log-likelihood
   and log-prior arrays, every acceptance test having failed.  This is the
   case where the maximum log-likelihood is not finite, which makes every
   weight NaN. *)
C6_EmptyPosteriorSilent ==
    (Selected /\ KeptIdx = {}) =>
        /\ error = None
        /\ thrown = None
        /\ Passing = {}
        /\ ~IsFin(MaxOf(logl))
        /\ ENABLED Populate \/ pc = "done"
        /\ pc = "done" =>
              /\ result.samples = Some(<<>>)
              /\ result.log_likelihood_evaluations = Some(<<>>)
              /\ result.log_prior_evaluations = Some(<<>>)

\* two samples of zero likelihood: the maximum is -inf, both weights are
\* NaN, no test passes and the result is returned empty
C6_Witness ==
    /\ pc = "done"
    /\ logl = <<NegInf, NegInf>>
    /\ result.samples = Some(<<>>)
    /\ result.log_likelihood_evaluations = Some(<<>>)
    /\ result.log_prior_evaluations = Some(<<>>)
    /\ error = None

(* C7: after construction self.kwargs holds exactly the key ninitial: the
   user's value when one was passed, 100 otherwise; every other key the user
   passed is gone before run_sampler reads the configuration. *)
C7_KwargsStripped ==
    pc # "new" =>
        /\ DOMAIN kwargs = {"ninitial"}
        /\ kwargs["ninitial"] =
              IF "ninitial" \in DOMAIN ctor_kwargs THEN ctor_kwargs["ninitial"] ELSE 100

\* the user passed ninitial and an unrecognised key, and the run has drawn
C7_Witness ==
    /\ pc = "loop"
    /\ DOMAIN ctor_kwargs = {"ninitial", "walks"}
    /\ ctor_kwargs["ninitial"] = 1
    /\ kwargs = [ninitial |-> 1]
    /\ N = 1

(* C8: every call of get_expected_outputs, before or after run_sampler,
   returns an empty file list and an empty directory list, which are the
   paths the adapter has created, and changes nothing but the returned
   value. *)
C8_OutputsTruthful ==
    [][outputs' # outputs =>
          /\ UNCHANGED runvars
          /\ outputs' = Some(<<<<>>, <<>>>>)
          /\ {outputs'[1][1][k] : k \in 1..Len(outputs'[1][1])}
                \cup {outputs'[1][2][k] : k \in 1..Len(outputs'[1][2])} = created']_vars

\* get_expected_outputs has answered and run_sampler has completed
C8_Witness ==
    /\ pc = "done"
    /\ outputs = Some(<<<<>>, <<>>>>)
    /\ created = {}

(* C9: in a completed run with finite log-likelihoods every sample whose
   log-likelihood is the maximum is retained, so the posterior has at least
   one row; a sample that is dropped has a strictly smaller log-likelihood. *)
C9_MaximumRetained ==
    (pc = "done" /\ AllFin(logl)) =>
        /\ \A j \in 1..N :
              (\A m \in 1..N : logl[m].v <= logl[j].v) => j \in KeptIdx
        /\ \A j \in 1..N :
              j \notin KeptIdx => \E m \in 1..N : logl[j].v < logl[m].v
        /\ Len(result.samples[1]) >= 1

\* the largest draws for both samples: the maximum stays, the other goes
C9_Witness ==
    /\ pc = "done"
    /\ logl = <<Fin(-500), Fin(0)>>
    /\ u = <<3, 3>>
    /\ KeptIdx = {2}
    /\ Len(result.samples[1]) = 1

(* C10: the result object is updated all at once: when run_sampler has
   raised, and at every point before it returns, none of the six fields has
   been assigned; when it has returned, all six have. *)
C10_AllOrNothing ==
    /\ pc # "done" => result = FreshResult
    /\ pc = "done" => \A f \in DOMAIN result : result[f] # None

\* the log-prior of the second of two samples raises, the first evaluated
C10_Witness ==
    /\ pc = "raised"
    /\ thrown # None
    /\ thrown[1].by = "log_prior"
    /\ thrown[1].at = 2
    /\ logl[1] # Uninit
    /\ result = FreshResult

=============================================================================
